---- MODULE Spec2Model ----
(***************************************************************************)
(* Model of graphviz/lang.py: quote, quote_edge, a_list, attr_list.        *)
(*                                                                         *)
(* A Python str is a sequence of one-character strings.  A Python value is *)
(* a record [type, str, num] (Str, Num, None below).  The result of a call *)
(* is a record [exc, val]: exc = "" and val the returned text, or exc the  *)
(* name of the exception raised.                                           *)
(*                                                                         *)
(* The functions are pure, so a behaviour is one call: Init draws the      *)
(* function and its arguments, the function's action runs its body.        *)
(***************************************************************************)
EXTENDS Naturals, Integers, Sequences, FiniteSets, TLC

VARIABLES pc, call, identifier, label, kwargs, attributes, result, content, ret

vars == <<pc, call, identifier, label, kwargs, attributes, result, content, ret>>

(***************************************************************************)
(* Bounds of the model.                                                    *)
(***************************************************************************)
\* longest identifier handed to quote
MaxLen == 3
\* longest identifier handed to quote_edge
MaxEdgeLen == 5
\* most entries of kwargs, and of attributes
MaxItems == 2

(***************************************************************************)
(* Python values.                                                          *)
(***************************************************************************)
Str(s) == [type |-> "str", str |-> s, num |-> 0]
Num(n) == [type |-> "int", str |-> <<>>, num |-> n]
None == [type |-> "NoneType", str |-> <<>>, num |-> 0]

Return(text) == [exc |-> "", val |-> text]
Raise(e) == [exc |-> e, val |-> <<>>]

\* a dict with its iteration order, a list of pairs, or None
Dict(items) == [type |-> "dict", items |-> items]
List(items) == [type |-> "list", items |-> items]
NoArg == [type |-> "NoneType", items |-> <<>>]

DQ == "\""
BS == "\\"
NL == "\n"

(***************************************************************************)
(* Character classes of the patterns (lang.py 13-17).                      *)
(***************************************************************************)
LOWER == <<"a","b","c","d","e","f","g","h","i","j","k","l","m",
           "n","o","p","q","r","s","t","u","v","w","x","y","z">>
UPPER == <<"A","B","C","D","E","F","G","H","I","J","K","L","M",
           "N","O","P","Q","R","S","T","U","V","W","X","Y","Z">>
DIGITS == {"0","1","2","3","4","5","6","7","8","9"}

Range(f) == {f[i] : i \in DOMAIN f}

\* [a-zA-Z_]
IsIdStart(c) == c \in Range(LOWER) \cup Range(UPPER) \cup {"_"}
\* [a-zA-Z0-9_]
IsIdChar(c) == IsIdStart(c) \/ c \in DIGITS
\* \d
IsDigit(c) == c \in DIGITS

\* re.IGNORECASE: both sides compared in lower case
lower_char(c) ==
    IF \E i \in DOMAIN UPPER : UPPER[i] = c
    THEN LOWER[CHOOSE i \in DOMAIN UPPER : UPPER[i] = c]
    ELSE c
lower(s) == [i \in 1..Len(s) |-> lower_char(s[i])]

AllDigits(s, from, to) == \A i \in from..to : IsDigit(s[i])

\* `$` without re.MULTILINE, after n characters of s: at the end of the
\* string, or just before a newline that is the last character
AtDollar(s, n) ==
    \/ n = Len(s)
    \/ n = Len(s) - 1 /\ s[Len(s)] = NL

\* t matches [a-zA-Z_][a-zA-Z0-9_]* entirely
IsName(t) ==
    /\ Len(t) >= 1
    /\ IsIdStart(t[1])
    /\ \A i \in 2..Len(t) : IsIdChar(t[i])

\* t[from..] matches (\.\d+|\d+(\.\d*)?) entirely
IsUnsigned(t, from) ==
    \/ /\ from <= Len(t)
       /\ t[from] = "."
       /\ from + 1 <= Len(t)
       /\ AllDigits(t, from + 1, Len(t))
    \/ \E k \in from..Len(t) :
          /\ AllDigits(t, from, k)
          /\ \/ k = Len(t)
             \/ t[k + 1] = "." /\ AllDigits(t, k + 2, Len(t))

\* t matches -?(\.\d+|\d+(\.\d*)?) entirely
IsNumeral(t) ==
    \/ IsUnsigned(t, 1)
    \/ Len(t) >= 1 /\ t[1] = "-" /\ IsUnsigned(t, 2)

KEYWORDS == { <<"n","o","d","e">>, <<"e","d","g","e">>, <<"g","r","a","p","h">>,
              <<"d","i","g","r","a","p","h">>,
              <<"s","u","b","g","r","a","p","h">>,
              <<"s","t","r","i","c","t">> }

\* ID.match: the pattern matched from the start of the string, then `$`
valid_id(s) ==
    \E n \in 0..Len(s) :
        /\ IsName(SubSeq(s, 1, n)) \/ IsNumeral(SubSeq(s, 1, n))
        /\ AtDollar(s, n)

\* KEYWORD.match
dot_keyword(s) ==
    \E n \in 0..Len(s) :
        /\ lower(SubSeq(s, 1, n)) \in KEYWORDS
        /\ AtDollar(s, n)

\* HTML_STRING.match: '<', anything (re.DOTALL), '>', then `$`
html(s) ==
    /\ Len(s) >= 2
    /\ s[1] = "<"
    /\ \E n \in 2..Len(s) : s[n] = ">" /\ AtDollar(s, n)

(***************************************************************************)
(* quote (lang.py 22-48).                                                  *)
(***************************************************************************)
RECURSIVE replace_first(_, _, _)
replace_first(s, old, new) ==
    IF s = <<>> THEN <<>>
    ELSE IF Head(s) = old THEN new \o Tail(s)
    ELSE <<Head(s)>> \o replace_first(Tail(s), old, new)

\* str.replace(old, new) for a one-character old
RECURSIVE replace(_, _, _)
replace(s, old, new) ==
    IF s = <<>> THEN <<>>
    ELSE (IF Head(s) = old THEN new ELSE <<Head(s)>>) \o replace(Tail(s), old, new)

quote_index_first(v) ==
    IF v.type # "str" THEN Raise("TypeError")
    ELSE IF v.str = <<>> THEN Raise("IndexError")
    ELSE IF html(v.str) THEN Return(v.str)
    ELSE IF ~valid_id(v.str) \/ dot_keyword(v.str)
         THEN Return(<<DQ>> \o replace(v.str, DQ, <<BS, DQ>>) \o <<DQ>>)
    ELSE Return(v.str)

\* a compiled pattern's match raises TypeError for an argument that is not
\* a string (line 44 is the first match called)
quote(v) ==
    IF v.type # "str" THEN Raise("TypeError")
    ELSE IF html(v.str) THEN Return(v.str)
    ELSE IF ~valid_id(v.str) \/ dot_keyword(v.str)
         THEN Return(<<DQ>> \o replace(v.str, DQ, <<BS, DQ>>) \o <<DQ>>)
    ELSE Return(v.str)

\* quote of a str, as text
qs(s) == quote(Str(s)).val

(***************************************************************************)
(* quote_edge (lang.py 51-70).                                             *)
(***************************************************************************)
\* str.partition(sep) for a one-character sep: <<before, sep, after>>,
\* or <<s, '', ''>> when sep does not occur
partition(s, sep) ==
    IF \E i \in 1..Len(s) : s[i] = sep
    THEN LET i == CHOOSE i \in 1..Len(s) :
                      s[i] = sep /\ \A j \in 1..(i - 1) : s[j] # sep
         IN <<SubSeq(s, 1, i - 1), <<sep>>, SubSeq(s, i + 1, Len(s))>>
    ELSE <<s, <<>>, <<>>>>

\* sep.join(parts)
RECURSIVE join(_, _)
join(sep, parts) ==
    IF parts = <<>> THEN <<>>
    ELSE IF Len(parts) = 1 THEN parts[1]
    ELSE parts[1] \o sep \o join(sep, Tail(parts))

quote_edge_quoting_compass(s) ==
    LET p1 == partition(s, ":")
        p2 == partition(p1[3], ":")
    IN join(<<":">>,
            <<qs(p1[1])>>
            \o (IF p1[3] # <<>> THEN <<qs(p2[1])>> ELSE <<>>)
            \o (IF p1[3] # <<>> /\ p2[3] # <<>> THEN <<qs(p2[3])>> ELSE <<>>))

quote_edge(s) ==
    LET p1 == partition(s, ":")
        node == p1[1]
        rest == p1[3]
        p2 == partition(rest, ":")
        port == p2[1]
        compass == p2[3]
        parts == <<qs(node)>>
                 \o (IF rest # <<>> THEN <<qs(port)>> ELSE <<>>)
                 \o (IF rest # <<>> /\ compass # <<>> THEN <<compass>> ELSE <<>>)
    IN join(<<":">>, parts)

(***************************************************************************)
(* a_list, attr_list (lang.py 73-111).                                     *)
(***************************************************************************)
\* ord(c) of the characters that occur in keys
ord(c) ==
    CASE c = " " -> 32
      [] c = DQ -> 34
      [] c = "a" -> 97
      [] c = "b" -> 98
      [] OTHER -> 0

\* a < b for two str: by code point, a proper prefix first
RECURSIVE str_lt(_, _)
str_lt(a, b) ==
    IF b = <<>> THEN FALSE
    ELSE IF a = <<>> THEN TRUE
    ELSE IF Head(a) = Head(b) THEN str_lt(Tail(a), Tail(b))
    ELSE ord(Head(a)) < ord(Head(b))

\* (k1, v1) < (k2, v2) for the items of a dict: its keys are distinct, so
\* the keys decide
item_lt(p, q) == str_lt(p[1].str, q[1].str)

RemoveAt(s, i) == SubSeq(s, 1, i - 1) \o SubSeq(s, i + 1, Len(s))

\* sorted(items): ascending, stable
RECURSIVE sorted(_)
sorted(items) ==
    IF items = <<>> THEN <<>>
    ELSE LET m == CHOOSE i \in 1..Len(items) :
                      /\ \A j \in 1..Len(items) : ~item_lt(items[j], items[i])
                      /\ \A j \in 1..(i - 1) : item_lt(items[i], items[j])
         IN <<items[m]>> \o sorted(RemoveAt(items, m))

\* tools.mapping_items: the items of the mapping as key-sorted pairs
mapping_items(mapping) == sorted(mapping.items)

\* bool(x) of None, a dict or a list
truthy(x) == x.type # "NoneType" /\ x.items # <<>>

\* hasattr(x, 'items')
has_items(x) == x.type = "dict"

LABEL_EQ == <<"l","a","b","e","l","=">>

\* ['%s=%s' % (quote(k), quote(v)) for k, v in items if v is not None]
RECURSIVE tokens(_)
tokens(items) ==
    IF items = <<>> THEN <<>>
    ELSE (IF items[1][2] # None
          THEN <<quote(items[1][1]).val \o <<"=">> \o quote(items[1][2]).val>>
          ELSE <<>>)
         \o tokens(Tail(items))

\* ... if v (an empty str is dropped with None)
RECURSIVE tokens_if_v(_)
tokens_if_v(items) ==
    IF items = <<>> THEN <<>>
    ELSE (IF items[1][2] # None /\ items[1][2].str # <<>>
          THEN <<quote(items[1][1]).val \o <<"=">> \o quote(items[1][2]).val>>
          ELSE <<>>)
         \o tokens_if_v(Tail(items))

label_tokens(lbl) == IF lbl # None THEN <<LABEL_EQ \o quote(lbl).val>> ELSE <<>>

\* attributes emitted before kwargs
a_list_result_swapped(lbl, kw, attrs) ==
    label_tokens(lbl)
    \o (IF truthy(attrs)
        THEN tokens(IF has_items(attrs) THEN mapping_items(attrs) ELSE attrs.items)
        ELSE <<>>)
    \o (IF truthy(kw) THEN tokens(mapping_items(kw)) ELSE <<>>)

\* the truthiness of v decides instead of v is not None
a_list_result_if_v(lbl, kw, attrs) ==
    label_tokens(lbl)
    \o (IF truthy(kw) THEN tokens_if_v(mapping_items(kw)) ELSE <<>>)
    \o (IF truthy(attrs)
        THEN tokens_if_v(IF has_items(attrs) THEN mapping_items(attrs) ELSE attrs.items)
        ELSE <<>>)

\* attributes iterated as given, also when it is a mapping
a_list_result_no_hasattr(lbl, kw, attrs) ==
    label_tokens(lbl)
    \o (IF truthy(kw) THEN tokens(mapping_items(kw)) ELSE <<>>)
    \o (IF truthy(attrs) THEN tokens(attrs.items) ELSE <<>>)

\* the list `result` of a_list when it returns
a_list_result(lbl, kw, attrs) ==
    label_tokens(lbl)
    \o (IF truthy(kw) THEN tokens(mapping_items(kw)) ELSE <<>>)
    \o (IF truthy(attrs)
        THEN tokens(IF has_items(attrs) THEN mapping_items(attrs) ELSE attrs.items)
        ELSE <<>>)

a_list(lbl, kw, attrs) == join(<<" ">>, a_list_result(lbl, kw, attrs))

attr_list_always_brackets(lbl, kw, attrs) ==
    <<" ", "[">> \o a_list(lbl, kw, attrs) \o <<"]">>

attr_list(lbl, kw, attrs) ==
    LET c == a_list(lbl, kw, attrs)
    IN IF c = <<>> THEN <<>> ELSE <<" ", "[">> \o c \o <<"]">>

(***************************************************************************)
(* The arguments of a call.                                                *)
(***************************************************************************)
Strs(A, n) == UNION {[1..k -> A] : k \in 0..n}

Alphabet == {"a", "Z", "_", "1", ".", "-", DQ, BS, NL, "<", ">", " "}

\* the reserved words, in several cases, and their neighbours
KeywordSamples ==
    KEYWORDS \cup
    { <<"N","o","d","E">>, <<"E","D","G","E">>, <<"G","r","a","p","h">>,
      <<"S","t","r","i","c","t">>,
      <<"n","o","d","e",NL>>, <<"N","O","D","E",NL>>, <<"n","o","d","e",NL,NL>>,
      <<"n","o","d","e","s">>, <<"n","o","d">>, <<"n","o","d","e"," ">>,
      <<"_","n","o","d","e">>, <<"e","d","g","e","1">> }

Numbers == {-1, 0, 42}

QuoteInputs ==
    {Str(s) : s \in Strs(Alphabet, MaxLen) \cup KeywordSamples}
    \cup {Num(n) : n \in Numbers}

EdgeAlphabet == {"a", ":", " ", DQ}

EdgeInputs == {Str(s) : s \in Strs(EdgeAlphabet, MaxEdgeLen)}

AB == <<"a", " ", "b">>
AttrKeys == {<<"b">>, AB}
AttrValues == {None, Str(<<>>), Str(AB)}
Labels == {None, Str(<<>>), Str(AB)}

Pairs == {<<Str(k), v>> : k \in AttrKeys, v \in AttrValues}
PairSeqs == UNION {[1..k -> Pairs] : k \in 0..MaxItems}
DistinctKeys(q) == \A i, j \in 1..Len(q) : i # j => q[i][1] # q[j][1]

DictInputs == {Dict(q) : q \in {q \in PairSeqs : DistinctKeys(q)}}
ListInputs == {List(q) : q \in PairSeqs}
KwargsInputs == {NoArg} \cup DictInputs
AttributesInputs == {NoArg} \cup DictInputs \cup ListInputs

(***************************************************************************)
(* The state machine.                                                      *)
(***************************************************************************)
Init ==
    /\ pc = "call"
    /\ result = <<>>
    /\ content = <<>>
    /\ ret = Return(<<>>)
    /\ \/ /\ call = "quote"
          /\ identifier \in QuoteInputs
          /\ label = None /\ kwargs = NoArg /\ attributes = NoArg
       \/ /\ call = "quote_edge"
          /\ identifier \in EdgeInputs
          /\ label = None /\ kwargs = NoArg /\ attributes = NoArg
       \/ /\ call \in {"a_list", "attr_list"}
          /\ identifier = None
          /\ label \in Labels
          /\ kwargs \in KwargsInputs
          /\ attributes \in AttributesInputs

Quote ==
    /\ pc = "call" /\ call = "quote"
    /\ ret' = quote(identifier)
    /\ pc' = "done"
    /\ UNCHANGED <<call, identifier, label, kwargs, attributes, result, content>>

QuoteEdge ==
    /\ pc = "call" /\ call = "quote_edge"
    /\ ret' = Return(quote_edge(identifier.str))
    /\ pc' = "done"
    /\ UNCHANGED <<call, identifier, label, kwargs, attributes, result, content>>

AList ==
    /\ pc = "call" /\ call = "a_list"
    /\ result' = a_list_result(label, kwargs, attributes)
    /\ ret' = Return(a_list(label, kwargs, attributes))
    /\ pc' = "done"
    /\ UNCHANGED <<call, identifier, label, kwargs, attributes, content>>

AttrList ==
    /\ pc = "call" /\ call = "attr_list"
    /\ result' = a_list_result(label, kwargs, attributes)
    /\ content' = a_list(label, kwargs, attributes)
    /\ ret' = Return(attr_list(label, kwargs, attributes))
    /\ pc' = "done"
    /\ UNCHANGED <<call, identifier, label, kwargs, attributes>>

Next == Quote \/ QuoteEdge \/ AList \/ AttrList

Spec == Init /\ [][Next]_vars

(***************************************************************************)
(* Properties.                                                             *)
(***************************************************************************)
Done(f) == pc = "done" /\ call = f

\* the double-quoted form of s: '"' + s with every '"' escaped + '"'
Quoted(s) == <<DQ>> \o replace(s, DQ, <<BS, DQ>>) \o <<DQ>>

\* the number of '"' among the first i characters of s
CountDQ(s, i) == Cardinality({j \in 1..i : s[j] = DQ})

\* C1: quote(s) returns s unmodified if and only if s starts with '<' and
\* ends with '>', or the whole of s is a bare identifier or a numeral and no
\* reserved word; every other string (one with a trailing newline too) is
\* returned in double-quoted form.
C1_UnmodifiedIffBare ==
    (Done("quote") /\ identifier.type = "str") =>
        LET s == identifier.str
            bare == \/ Len(s) >= 1 /\ s[1] = "<" /\ s[Len(s)] = ">"
                    \/ /\ IsName(s) \/ IsNumeral(s)
                       /\ lower(s) \notin KEYWORDS
        IN /\ (ret.val = s) <=> bare
           /\ ~bare => ret.val = Quoted(s)

\* The grammar's quoted-string rule, from position i of out: backslash
\* followed by '"' stands for one '"', the first unescaped '"' closes.
RECURSIVE ScanQuoted(_, _, _)
ScanQuoted(out, i, acc) ==
    IF i > Len(out) THEN [closed |-> FALSE, end |-> i, content |-> acc]
    ELSE IF out[i] = BS /\ i + 1 <= Len(out) /\ out[i + 1] = DQ
         THEN ScanQuoted(out, i + 2, Append(acc, DQ))
    ELSE IF out[i] = DQ THEN [closed |-> TRUE, end |-> i, content |-> acc]
    ELSE ScanQuoted(out, i + 1, Append(acc, out[i]))

\* C2: when quote puts s in double-quoted form, re-parsing the output with
\* the quoted-string rule consumes all of it as one terminated token whose
\* content is s.
C2_QuotedRoundTrip ==
    (Done("quote") /\ identifier.type = "str" /\ ret.val # identifier.str) =>
        LET out == ret.val
            r == ScanQuoted(out, 2, <<>>)
        IN /\ out[1] = DQ
           /\ r.closed
           /\ r.end = Len(out)
           /\ r.content = identifier.str

C4_QuotedForm ==
    (Done("quote") /\ identifier.type = "str") =>
        LET s == identifier.str
            out == ret.val
            pos(i) == 1 + i + CountDQ(s, i)
        IN /\ s = <<>> => out = <<DQ, DQ>>
           /\ out # s =>
                 /\ Len(out) = Len(s) + 2 + CountDQ(s, Len(s))
                 /\ out[1] = DQ
                 /\ out[Len(out)] = DQ
                 /\ \A i \in 1..Len(s) :
                        /\ out[pos(i)] = s[i]
                        /\ s[i] = DQ => out[pos(i) - 1] = BS

C4_Witness ==
    /\ Done("quote")
    /\ CountDQ(identifier.str, Len(identifier.str)) >= 2
    /\ BS \in Range(identifier.str)
    /\ ret.val # identifier.str

Min(S) == CHOOSE x \in S : \A y \in S : x <= y

\* C5: quote_edge(s) is quote(node), then ':' + quote(port) when the text
\* after the first ':' is not empty, then ':' + compass when the text after
\* the second ':' is not empty; compass is emitted verbatim.
C5_QuoteEdge ==
    Done("quote_edge") =>
        LET s == identifier.str
            colons == {i \in 1..Len(s) : s[i] = ":"}
        IN IF colons = {} THEN ret.val = qs(s)
           ELSE LET i1 == Min(colons)
                    node == SubSeq(s, 1, i1 - 1)
                    rest == SubSeq(s, i1 + 1, Len(s))
                    later == {i \in colons : i > i1}
                IN IF rest = <<>> THEN ret.val = qs(node)
                   ELSE IF later = {} THEN ret.val = qs(node) \o <<":">> \o qs(rest)
                   ELSE LET i2 == Min(later)
                            port == SubSeq(s, i1 + 1, i2 - 1)
                            compass == SubSeq(s, i2 + 1, Len(s))
                        IN ret.val = qs(node) \o <<":">> \o qs(port)
                                     \o (IF compass # <<>>
                                         THEN <<":">> \o compass ELSE <<>>)

C5_Witness ==
    /\ Done("quote_edge")
    /\ \E i, j \in 1..Len(identifier.str) :
          /\ 1 < i /\ i + 1 < j /\ j < Len(identifier.str)
          /\ identifier.str[i] = ":" /\ identifier.str[j] = ":"
          /\ \A k \in 1..(j - 1) : k # i => identifier.str[k] # ":"
          /\ LET compass == SubSeq(identifier.str, j + 1, Len(identifier.str))
             IN /\ qs(compass) # compass
                /\ SubSeq(ret.val, Len(ret.val) - Len(compass), Len(ret.val))
                       = <<":">> \o compass

NotNone(p) == p[2] # None
NonNone(items) == SelectSeq(items, NotNone)

\* quote(k) + '=' + quote(v)
Tok(p) == qs(p[1].str) \o <<"=">> \o qs(p[2].str)
Toks(q) == [i \in 1..Len(q) |-> Tok(q[i])]

Ascending(q) == \A i \in 1..(Len(q) - 1) : str_lt(q[i][1].str, q[i + 1][1].str)

\* the entries of a mapping that have a value, in ascending key order
KeyOrdered(items) ==
    LET nn == NonNone(items)
    IN CHOOSE q \in [1..Len(nn) -> Range(nn)] : Ascending(q)

RECURSIVE SpaceSeparated(_)
SpaceSeparated(toks) ==
    IF toks = <<>> THEN <<>>
    ELSE IF Len(toks) = 1 THEN toks[1]
    ELSE SpaceSeparated(SubSeq(toks, 1, Len(toks) - 1)) \o <<" ">> \o toks[Len(toks)]

\* C6: a_list emits 'label=' + quote(label) first when label is given, then
\* the kwargs tokens in ascending key order, then the attributes tokens, in
\* ascending key order for a mapping and in the given order for a sequence
\* of pairs; one space between tokens, none before or after.
C6_TokenOrder ==
    Done("a_list") =>
        LET toks == (IF label # None THEN <<LABEL_EQ \o qs(label.str)>> ELSE <<>>)
                    \o Toks(KeyOrdered(kwargs.items))
                    \o Toks(IF attributes.type = "dict"
                            THEN KeyOrdered(attributes.items)
                            ELSE NonNone(attributes.items))
        IN /\ result = toks
           /\ ret.val = SpaceSeparated(toks)
           /\ ret.val # <<>> => ret.val[1] # " " /\ ret.val[Len(ret.val)] # " "

Descending(items) ==
    /\ Len(items) = 2
    /\ NonNone(items) = items
    /\ str_lt(items[2][1].str, items[1][1].str)

C6_Witness ==
    /\ Done("a_list")
    /\ label # None
    /\ kwargs.type = "dict" /\ Descending(kwargs.items)
    /\ attributes.type = "list" /\ Descending(attributes.items)
    /\ Len(result) = 5

AllEntries == kwargs.items \o attributes.items

StartsWith(s, prefix) ==
    /\ Len(s) >= Len(prefix)
    /\ SubSeq(s, 1, Len(prefix)) = prefix

HasTokenFor(k) ==
    \E i \in 1..Len(result) : StartsWith(result[i], qs(k) \o <<"=">>)

\* C7: in a_list and attr_list a key whose value is None gets no token at
\* all, a key whose value is '' gets the token quote(k) + '=""'; label None
\* gives no label token, label '' gives 'label=""'.
C7_NoneDroppedEmptyKept ==
    (Done("a_list") \/ Done("attr_list")) =>
        /\ Len(result) = (IF label # None THEN 1 ELSE 0)
                         + Len(NonNone(kwargs.items))
                         + Len(NonNone(attributes.items))
        /\ \A k \in {p[1].str : p \in Range(AllEntries)} :
               (\A p \in Range(AllEntries) : p[1].str = k => p[2] = None)
                   => ~HasTokenFor(k)
        /\ \A p \in Range(AllEntries) :
               p[2] = Str(<<>>) => (qs(p[1].str) \o <<"=", DQ, DQ>>) \in Range(result)
        /\ label = None =>
               \A i \in 1..Len(result) : ~StartsWith(result[i], LABEL_EQ)
        /\ label = Str(<<>>) => result[1] = LABEL_EQ \o <<DQ, DQ>>
        /\ ret.val = IF call = "a_list" \/ result = <<>>
                     THEN SpaceSeparated(result)
                     ELSE <<" ", "[">> \o SpaceSeparated(result) \o <<"]">>

C7_Witness ==
    /\ Done("attr_list")
    /\ label = Str(<<>>)
    /\ \E p, q \in Range(kwargs.items) : p[2] = None /\ q[2] = Str(<<>>)
    /\ \E p, q \in Range(attributes.items) : p[2] = None /\ q[2] = Str(<<>>)
    /\ Len(result) = 3

\* C8: attr_list is '' exactly when a_list of the same arguments is '',
\* which is exactly when label is absent and no entry of kwargs or
\* attributes has a value; otherwise it is ' [' + a_list(...) + ']'.
C8_AttrListWraps ==
    Done("attr_list") =>
        /\ content = a_list(label, kwargs, attributes)
        /\ (ret.val = <<>>) <=> (content = <<>>)
        /\ (content = <<>>) <=> /\ label = None
                                /\ NonNone(kwargs.items) = <<>>
                                /\ NonNone(attributes.items) = <<>>
        /\ content # <<>> => ret.val = <<" ", "[">> \o content \o <<"]">>

C8_Witness ==
    /\ Done("attr_list")
    /\ label = None
    /\ Len(kwargs.items) = 2 /\ NonNone(kwargs.items) = <<>>
    /\ Len(attributes.items) = 2 /\ NonNone(attributes.items) = <<>>
    /\ ret.val = <<>>

\* the same entries in every order of presentation
Reorderings(arg) ==
    {[type |-> arg.type,
      items |-> [i \in 1..Len(arg.items) |-> arg.items[p[i]]]] :
        p \in Permutations(1..Len(arg.items))}

Output(f, lbl, kw, attrs) ==
    IF f = "a_list" THEN a_list(lbl, kw, attrs) ELSE attr_list(lbl, kw, attrs)

\* C9: a_list and attr_list return the same output for the same label and
\* the same multiset of pairs in kwargs and in attributes, whatever the
\* iteration order of a mapping and whatever the order of presentation of
\* the pairs.
C9_AnyOrder ==
    (Done("a_list") \/ Done("attr_list")) =>
        \A kw \in Reorderings(kwargs), attrs \in Reorderings(attributes) :
            ret.val = Output(call, label, kw, attrs)

\* C9 (amended): the output is the same whatever the iteration order of
\* kwargs and of an attributes that is a mapping; an attributes that is a
\* sequence of pairs is emitted in the order given.
C9_MappingOrder ==
    (Done("a_list") \/ Done("attr_list")) =>
        \A kw \in Reorderings(kwargs),
           attrs \in (IF attributes.type = "dict"
                      THEN Reorderings(attributes) ELSE {attributes}) :
            ret.val = Output(call, label, kw, attrs)

C9_Witness ==
    /\ Done("a_list")
    /\ kwargs.type = "dict" /\ Descending(kwargs.items)
    /\ attributes.type = "dict" /\ Descending(attributes.items)
    /\ Len(result) = 4

EndsWith(s, suffix) ==
    /\ Len(s) >= Len(suffix)
    /\ SubSeq(s, Len(s) - Len(suffix) + 1, Len(s)) = suffix

\* C10: quote_edge of an input with no ':' is quote(input); for an input
\* ending in ':' the trailing empty component is absent, so the output
\* never ends with ':""'.
C10_TrailingColon ==
    Done("quote_edge") =>
        LET s == identifier.str
        IN /\ ":" \notin Range(s) => ret.val = qs(s)
           /\ (s # <<>> /\ s[Len(s)] = ":") => ~EndsWith(ret.val, <<":", DQ, DQ>>)

====
